---------------------------- MODULE Spec2Model ----------------------------
(***************************************************************************)
(* A model of the inventory service of src/api: the relational store of    *)
(* database.py (locations, location_regions, inventory_items, item_tags)   *)
(* and the request handlers of app.py that read and write it.              *)
(*                                                                         *)
(* Conventions.                                                            *)
(*   - A nullable value is a set: NULL (Python None, SQL NULL) or Some(v). *)
(*   - A string is a sequence of characters, a character a one-token       *)
(*     string; "Auml" / "auml" stand for a non-ASCII letter pair.          *)
(*   - A table is a function from primary key to row; the row repeats its  *)
(*     id column, as sqlite3.Row does.                                     *)
(*   - A form or query argument that app.py turns into a number with       *)
(*     int(s) if s else None  is given as NULL (absent or empty) or        *)
(*     Some(n), n the number its text denotes.                             *)
(*   - Requests are served one at a time; created_at / updated_at and the  *)
(*     bytes of uploaded files are left out.                               *)
(***************************************************************************)
EXTENDS Bags, FiniteSets, Integers, Sequences, TLC

VARIABLES
    locations,          \* table locations
    location_regions,   \* table location_regions
    inventory_items,    \* table inventory_items
    item_tags,          \* table item_tags, a bag of rows [item_id, tag]
    sqlite_sequence,    \* last rowid handed out, per table
    walk,               \* get_location_breadcrumbs: its locals and position
    response            \* the response to the last request

vars == <<locations, location_regions, inventory_items, item_tags,
          sqlite_sequence, walk, response>>

---------------------------------------------------------------------------
(* Bounds of the model. *)

MaxLocations == 3
MaxRegions == 2
MaxItems == 2
MaxDescLen == 5
MaxFieldLocations == 2

---------------------------------------------------------------------------
(* Nullable values and Python truthiness. *)

NULL == {}
Some(v) == {v}
Val(o) == CHOOSE v \in o : TRUE

\* bool(x) of an int or None: None and 0 are false.
TruthyInt(o) == o # NULL /\ Val(o) # 0

\* bool(s) of a str or None: None and "" are false.
TruthyStr(o) == o # NULL /\ Val(o) # <<>>

---------------------------------------------------------------------------
(* Tables. *)

Insert(table, id, row) ==
    [k \in DOMAIN table \cup {id} |-> IF k = id THEN row ELSE table[k]]

Delete(table, id) == [k \in DOMAIN table \ {id} |-> table[k]]

EmptyTable == [k \in {} |-> {}]

\* cursor.lastrowid of an INSERT into table t.
lastrowid(t) == sqlite_sequence[t] + 1

\* The NOT NULL constraint on a name column: an INSERT or UPDATE with a NULL
\* name raises, and the handler's except clause answers 500.
NotNullViolated(name) == name = NULL

---------------------------------------------------------------------------
(* database.py: locations. *)

get_location_by_id(location_id) ==
    IF location_id \in DOMAIN locations
    THEN Some(locations[location_id])
    ELSE NULL

\* A variant that tests the filter for truth, not for None.
get_locations_truthy(parent_id, root_only) ==
    IF TruthyInt(parent_id)
    THEN {l \in DOMAIN locations : locations[l].parent_id = parent_id}
    ELSE IF root_only
         THEN {l \in DOMAIN locations : locations[l].parent_id = NULL}
         ELSE DOMAIN locations

\* The ids of the rows get_locations selects.
get_locations(parent_id, root_only) ==
    IF parent_id # NULL
    THEN {l \in DOMAIN locations : locations[l].parent_id = parent_id}
    ELSE IF root_only
         THEN {l \in DOMAIN locations : locations[l].parent_id = NULL}
         ELSE DOMAIN locations

\* A variant whose INSERT leaves the description column out.
add_location_no_description(name, parent_id, description, image_path) ==
    Insert(locations, lastrowid("locations"),
           [id |-> lastrowid("locations"), name |-> Val(name),
            parent_id |-> parent_id, description |-> NULL,
            image_path |-> image_path])

\* The table after add_location; the new row's id is lastrowid("locations").
add_location(name, parent_id, description, image_path) ==
    Insert(locations, lastrowid("locations"),
           [id |-> lastrowid("locations"), name |-> Val(name),
            parent_id |-> parent_id, description |-> description,
            image_path |-> image_path])

\* The table after update_location.
update_location(location_id, name, parent_id, description, image_path) ==
    LET kept == IF image_path = NULL /\ location_id \in DOMAIN locations
                THEN locations[location_id].image_path
                ELSE image_path
    IN  [k \in DOMAIN locations |->
            IF k = location_id
            THEN [id |-> k, name |-> Val(name), parent_id |-> parent_id,
                  description |-> description, image_path |-> kept]
            ELSE locations[k]]

\* A variant that also deletes the rows below the deleted one.
delete_location_cascade(location_id) ==
    [k \in {l \in DOMAIN locations :
                l # location_id /\ locations[l].parent_id # Some(location_id)}
        |-> locations[k]]

\* The table after delete_location.
delete_location(location_id) == Delete(locations, location_id)

---------------------------------------------------------------------------
(* app.py: what the handlers answer. *)

Respond(route, args, status, body) ==
    [route |-> route, args |-> args, status |-> status, body |-> body]

uploads_url(image_path) ==
    IF TruthyStr(image_path) THEN Some(<<"/uploads/">> \o Val(image_path)) ELSE NULL

location_json(l) ==
    [id |-> l.id, name |-> l.name, description |-> l.description,
     parentId |-> l.parent_id, imagePath |-> uploads_url(l.image_path)]

IdleWalk == [pc |-> "idle", location_id |-> 0, breadcrumbs |-> <<>>,
             current_parent_id |-> NULL]

\* No request is inside get_location_breadcrumbs.
Serving == walk.pc # "loop"

regions_items_unchanged ==
    UNCHANGED <<location_regions, inventory_items, item_tags>>

---------------------------------------------------------------------------
(* app.py: location routes. *)

get_locations_route(parentId, root) ==
    /\ Serving
    /\ LET ids == IF parentId # NULL
                  THEN get_locations(parentId, FALSE)
                  ELSE IF root = Some("true")
                       THEN get_locations(NULL, TRUE)
                       ELSE get_locations(NULL, FALSE)
       IN  response' = Respond("get_locations", [parentId |-> parentId, root |-> root],
                               200, {location_json(locations[l]) : l \in ids})
    /\ walk' = IdleWalk
    /\ UNCHANGED <<locations, sqlite_sequence>>
    /\ regions_items_unchanged

add_location_route(name, description, parentId, image) ==
    /\ Serving
    /\ LET args == [name |-> name, description |-> description,
                    parentId |-> parentId, image |-> image]
       IN  IF NotNullViolated(name)
           THEN /\ response' = Respond("add_location", args, 500, "Failed to create location")
                /\ UNCHANGED <<locations, sqlite_sequence>>
           ELSE /\ locations' = add_location(name, parentId, description, image)
                /\ sqlite_sequence' =
                       [sqlite_sequence EXCEPT !["locations"] = lastrowid("locations")]
                /\ response' = Respond("add_location", args, 201,
                                       location_json(locations'[lastrowid("locations")]))
    /\ walk' = IdleWalk
    /\ regions_items_unchanged

get_location_route(location_id) ==
    /\ Serving
    /\ LET location == get_location_by_id(location_id)
       IN  response' =
               IF location = NULL
               THEN Respond("get_location", [location_id |-> location_id], 404,
                            "Location not found")
               ELSE Respond("get_location", [location_id |-> location_id], 200,
                            location_json(Val(location)))
    /\ walk' = IdleWalk
    /\ UNCHANGED <<locations, sqlite_sequence>>
    /\ regions_items_unchanged

update_location_route(location_id, name, description, parentId, image) ==
    /\ Serving
    /\ LET args == [location_id |-> location_id, name |-> name,
                    description |-> description, parentId |-> parentId,
                    image |-> image]
           location == get_location_by_id(location_id)
           image_path == IF TruthyStr(image) THEN image ELSE Val(location).image_path
       IN  IF location = NULL
           THEN /\ response' = Respond("update_location", args, 404, "Location not found")
                /\ UNCHANGED locations
           ELSE IF NotNullViolated(name)
           THEN /\ response' = Respond("update_location", args, 500,
                                       "Failed to update location")
                /\ UNCHANGED locations
           ELSE /\ locations' = update_location(location_id, name, parentId,
                                                description, image_path)
                /\ response' = Respond("update_location", args, 200,
                                       location_json(locations'[location_id]))
    /\ walk' = IdleWalk
    /\ UNCHANGED sqlite_sequence
    /\ regions_items_unchanged

\* A variant without the lookup: it deletes and answers success whatever the id.
delete_location_route_unchecked(location_id) ==
    /\ Serving
    /\ locations' = delete_location(location_id)
    /\ response' = Respond("delete_location", [location_id |-> location_id],
                           200, "success")
    /\ walk' = IdleWalk
    /\ UNCHANGED sqlite_sequence
    /\ regions_items_unchanged

delete_location_route(location_id) ==
    /\ Serving
    /\ IF get_location_by_id(location_id) = NULL
       THEN /\ response' = Respond("delete_location", [location_id |-> location_id],
                                   404, "Location not found")
            /\ UNCHANGED locations
       ELSE /\ locations' = delete_location(location_id)
            /\ response' = Respond("delete_location", [location_id |-> location_id],
                                   200, "success")
    /\ walk' = IdleWalk
    /\ UNCHANGED sqlite_sequence
    /\ regions_items_unchanged

---------------------------------------------------------------------------
(* database.py: get_location_breadcrumbs, and its route.  The function is  *)
(* a loop with no bound of its own, so it is taken one iteration at a      *)
(* time: the call (up to the while), each pass of the while, the return.   *)

\* The longest path the model lets the loop build.
MaxWalk == MaxLocations + 2

breadcrumb_json(l) == [id |-> l.id, name |-> l.name]

\* What get_breadcrumbs_route answers for the list the function returned.
breadcrumbs_response(location_id, breadcrumbs) ==
    IF breadcrumbs = <<>>
    THEN Respond("get_breadcrumbs", [location_id |-> location_id], 404,
                 "Location not found")
    ELSE Respond("get_breadcrumbs", [location_id |-> location_id], 200,
                 [i \in 1..Len(breadcrumbs) |-> breadcrumb_json(breadcrumbs[i])])

\* A variant that puts the parent at the end of the list.
breadcrumbs_append(breadcrumbs, parent) == Append(breadcrumbs, parent)

\* breadcrumbs.insert(0, parent)
breadcrumbs_insert(breadcrumbs, parent) == <<parent>> \o breadcrumbs

\* The request arrives; get_location_breadcrumbs runs up to its while loop.
get_breadcrumbs_route(location_id) ==
    /\ Serving
    /\ LET location == get_location_by_id(location_id)
       IN  IF location = NULL
           THEN /\ walk' = [pc |-> "done", location_id |-> location_id,
                            breadcrumbs |-> <<>>, current_parent_id |-> NULL]
                /\ response' = breadcrumbs_response(location_id, <<>>)
           ELSE /\ walk' = [pc |-> "loop", location_id |-> location_id,
                            breadcrumbs |-> <<Val(location)>>,
                            current_parent_id |-> Val(location).parent_id]
                /\ response' = Respond("get_breadcrumbs",
                                       [location_id |-> location_id], 0, "pending")
    /\ UNCHANGED <<locations, sqlite_sequence>>
    /\ regions_items_unchanged

\* A variant that takes a parent whose row is missing for a failure and
\* returns the empty list.
get_location_breadcrumbs_loop_strict ==
    /\ walk.pc = "loop"
    /\ LET parent == IF TruthyInt(walk.current_parent_id)
                     THEN get_location_by_id(Val(walk.current_parent_id))
                     ELSE NULL
       IN  IF TruthyInt(walk.current_parent_id) /\ parent # NULL
           THEN /\ Len(walk.breadcrumbs) < MaxWalk
                /\ walk' = [walk EXCEPT
                               !.breadcrumbs = breadcrumbs_insert(@, Val(parent)),
                               !.current_parent_id = Val(parent).parent_id]
                /\ UNCHANGED response
           ELSE IF walk.current_parent_id # NULL
           THEN /\ walk' = [walk EXCEPT !.pc = "done", !.breadcrumbs = <<>>]
                /\ response' = breadcrumbs_response(walk.location_id, <<>>)
           ELSE /\ walk' = [walk EXCEPT !.pc = "done"]
                /\ response' = breadcrumbs_response(walk.location_id, walk.breadcrumbs)
    /\ UNCHANGED <<locations, sqlite_sequence>>
    /\ regions_items_unchanged

\* One test of the while condition and, when it holds, one pass of the body.
get_location_breadcrumbs_loop ==
    /\ walk.pc = "loop"
    /\ LET parent == IF TruthyInt(walk.current_parent_id)
                     THEN get_location_by_id(Val(walk.current_parent_id))
                     ELSE NULL
       IN  IF TruthyInt(walk.current_parent_id) /\ parent # NULL
           THEN /\ Len(walk.breadcrumbs) < MaxWalk
                /\ walk' = [walk EXCEPT
                               !.breadcrumbs = breadcrumbs_insert(@, Val(parent)),
                               !.current_parent_id = Val(parent).parent_id]
                /\ UNCHANGED response
           ELSE /\ walk' = [walk EXCEPT !.pc = "done"]
                /\ response' = breadcrumbs_response(walk.location_id, walk.breadcrumbs)
    /\ UNCHANGED <<locations, sqlite_sequence>>
    /\ regions_items_unchanged

---------------------------------------------------------------------------
(* Strings: what str.lower, str.split and SQLite's LIKE do to them. *)

Whitespace == {" "}

\* The upper-case letters of the model's alphabet and their lower case.
AsciiLower == ("A" :> "a") @@ ("B" :> "b") @@ ("W" :> "w")
UnicodeLower == AsciiLower @@ ("Auml" :> "auml")

\* str.lower(): every cased letter, ASCII or not.
lower(s) == [i \in 1..Len(s) |->
                IF s[i] \in DOMAIN UnicodeLower THEN UnicodeLower[s[i]] ELSE s[i]]

\* The case folding of SQLite's built-in LIKE: ASCII letters only.
like_fold(c) == IF c \in DOMAIN AsciiLower THEN AsciiLower[c] ELSE c

RECURSIVE split_rec(_, _)
split_rec(s, word) ==
    IF s = <<>>
    THEN IF word = <<>> THEN <<>> ELSE <<word>>
    ELSE IF Head(s) \in Whitespace
         THEN (IF word = <<>> THEN <<>> ELSE <<word>>) \o split_rec(Tail(s), <<>>)
         ELSE split_rec(Tail(s), Append(word, Head(s)))

\* str.split(): the maximal runs of non-whitespace, in order.
split(s) == split_rec(s, <<>>)

\* text LIKE pattern, both not NULL: % matches any run of characters, _ any
\* one character, every other character itself up to ASCII case.
RECURSIVE like_match(_, _)
like_match(pattern, text) ==
    IF pattern = <<>> THEN text = <<>>
    ELSE IF Head(pattern) = "%"
         THEN \/ like_match(Tail(pattern), text)
              \/ text # <<>> /\ like_match(pattern, Tail(text))
    ELSE IF Head(pattern) = "_"
         THEN text # <<>> /\ like_match(Tail(pattern), Tail(text))
    ELSE /\ text # <<>>
         /\ like_fold(Head(pattern)) = like_fold(Head(text))
         /\ like_match(Tail(pattern), Tail(text))

\* column LIKE ? as a condition: a NULL column makes it NULL, which selects
\* nothing.
LIKE(column, pattern) == column # NULL /\ like_match(pattern, Val(column))

\* f'%{query}%' and f'{query}%'
contains_pattern(query) == <<"%">> \o query \o <<"%">>
prefix_pattern(query) == query \o <<"%">>

---------------------------------------------------------------------------
(* database.py: regions. *)

get_location_regions(location_id) ==
    {r \in DOMAIN location_regions : location_regions[r].location_id = location_id}

get_region_by_id(region_id) ==
    IF region_id \in DOMAIN location_regions
    THEN Some(location_regions[region_id])
    ELSE NULL

\* The table after add_location_region; the new id is lastrowid("location_regions").
add_location_region(location_id, name, x, y, width, height) ==
    Insert(location_regions, lastrowid("location_regions"),
           [id |-> lastrowid("location_regions"), location_id |-> location_id,
            name |-> name, x_coord |-> x, y_coord |-> y,
            width |-> width, height |-> height])

\* The table after update_location_region.
update_location_region(region_id, name, x, y, width, height) ==
    [k \in DOMAIN location_regions |->
        IF k = region_id
        THEN [location_regions[k] EXCEPT !.name = name, !.x_coord = x, !.y_coord = y,
                                         !.width = width, !.height = height]
        ELSE location_regions[k]]

\* A variant that deletes by location: every region of the location of the
\* region named goes with it.
delete_location_region_by_location(region_id) ==
    [k \in {r \in DOMAIN location_regions :
                /\ r # region_id
                /\ \/ region_id \notin DOMAIN location_regions
                   \/ location_regions[r].location_id
                          # location_regions[region_id].location_id}
        |-> location_regions[k]]

\* The table after delete_location_region.
delete_location_region(region_id) == Delete(location_regions, region_id)

---------------------------------------------------------------------------
(* database.py: inventory items and their tags. *)

BagOfSeq(seq) ==
    [x \in {seq[i] : i \in DOMAIN seq} |-> Cardinality({i \in DOMAIN seq : seq[i] = x})]

\* A variant that keeps the words of three characters too.
description_tags_from3(description) ==
    IF TruthyStr(description)
    THEN LET words == split(lower(Val(description)))
             long(word) == Len(word) >= 3
         IN  SelectSeq(words, long)
    ELSE <<>>

\* The words of the description that become tags.
description_tags(description) ==
    IF TruthyStr(description)
    THEN LET words == split(lower(Val(description)))
             long(word) == Len(word) > 3
         IN  SelectSeq(words, long)
    ELSE <<>>

\* The tag of the name.
name_tags(name) == IF TruthyStr(name) THEN <<lower(Val(name))>> ELSE <<>>

\* The rows add_inventory_item and update_inventory_item insert into item_tags.
tag_rows(item_id, name, description) ==
    LET tags == name_tags(name) \o description_tags(description)
    IN  BagOfSeq([i \in 1..Len(tags) |-> [item_id |-> item_id, tag |-> tags[i]]])

\* DELETE FROM item_tags WHERE item_id = ?
delete_item_tags(item_id) ==
    [r \in {q \in DOMAIN item_tags : q.item_id # item_id} |-> item_tags[r]]

\* SELECT i.*, l.name as location_name, r.name as region_name ... LEFT JOIN
joined_item(item) ==
    [id |-> item.id, name |-> item.name, description |-> item.description,
     quantity |-> item.quantity, image_path |-> item.image_path,
     location_id |-> item.location_id, region_id |-> item.region_id,
     location_name |->
         IF item.location_id # NULL /\ Val(item.location_id) \in DOMAIN locations
         THEN Some(locations[Val(item.location_id)].name) ELSE NULL,
     region_name |->
         IF item.region_id # NULL /\ Val(item.region_id) \in DOMAIN location_regions
         THEN Some(location_regions[Val(item.region_id)].name) ELSE NULL]

\* A filter of get_inventory_items as the route hands it over: None
\* ([kind |-> "none"]), the empty string ([kind |-> "empty"]: the argument was
\* sent empty and the route left it alone) or a number ([kind |-> "int", n |-> n]).
\* column = '' is true of no integer column.
filter_holds(filter, column) ==
    \/ filter.kind = "none"
    \/ filter.kind = "int" /\ column = Some(filter.n)

\* A variant that joins the where clauses with OR.
get_inventory_items_or(location_id, region_id) ==
    {i \in DOMAIN inventory_items :
        IF location_id.kind = "none" \/ region_id.kind = "none"
        THEN /\ filter_holds(location_id, inventory_items[i].location_id)
             /\ filter_holds(region_id, inventory_items[i].region_id)
        ELSE \/ filter_holds(location_id, inventory_items[i].location_id)
             \/ filter_holds(region_id, inventory_items[i].region_id)}

\* A variant with JOIN for LEFT JOIN: an item is selected only with the rows
\* of its location and of its region.
get_inventory_items_inner_join(location_id, region_id) ==
    {i \in DOMAIN inventory_items :
        /\ filter_holds(location_id, inventory_items[i].location_id)
        /\ filter_holds(region_id, inventory_items[i].region_id)
        /\ joined_item(inventory_items[i]).location_name # NULL
        /\ joined_item(inventory_items[i]).region_name # NULL}

\* The ids of the rows get_inventory_items selects.
get_inventory_items(location_id, region_id) ==
    {i \in DOMAIN inventory_items :
        /\ filter_holds(location_id, inventory_items[i].location_id)
        /\ filter_holds(region_id, inventory_items[i].region_id)}

get_inventory_item_by_id(item_id) ==
    IF item_id \in DOMAIN inventory_items
    THEN Some(joined_item(inventory_items[item_id]))
    ELSE NULL

\* The items table after add_inventory_item.
add_inventory_item(name, description, quantity, image_path, location_id, region_id) ==
    Insert(inventory_items, lastrowid("inventory_items"),
           [id |-> lastrowid("inventory_items"), name |-> Val(name),
            description |-> description, quantity |-> quantity,
            image_path |-> image_path, location_id |-> location_id,
            region_id |-> region_id])

\* The tags table after add_inventory_item.
add_inventory_item_tags(name, description) ==
    item_tags (+) tag_rows(lastrowid("inventory_items"), name, description)

\* The items table after update_inventory_item.
update_inventory_item(item_id, name, description, quantity, image_path, location_id, region_id) ==
    LET kept == IF image_path = NULL /\ item_id \in DOMAIN inventory_items
                THEN inventory_items[item_id].image_path
                ELSE image_path
    IN  [k \in DOMAIN inventory_items |->
            IF k = item_id
            THEN [id |-> k, name |-> Val(name), description |-> description,
                  quantity |-> quantity, image_path |-> kept,
                  location_id |-> location_id, region_id |-> region_id]
            ELSE inventory_items[k]]

\* A variant that inserts the new tags without deleting the old ones.
update_inventory_item_tags_kept(item_id, name, description) ==
    item_tags (+) tag_rows(item_id, name, description)

\* The tags table after update_inventory_item.
update_inventory_item_tags(item_id, name, description) ==
    delete_item_tags(item_id) (+) tag_rows(item_id, name, description)

\* The items table after delete_inventory_item; item_tags is not touched,
\* and the connection never turns foreign_keys on.
delete_inventory_item(item_id) == Delete(inventory_items, item_id)

---------------------------------------------------------------------------
(* database.py: search_items. *)

tags_of(item_id) == {r \in DOMAIN item_tags : r.item_id = item_id}

RECURSIVE copies_sum(_)
copies_sum(rows) ==
    IF rows = {} THEN 0
    ELSE LET r == CHOOSE q \in rows : TRUE
         IN  item_tags[r] + copies_sum(rows \ {r})

\* How many rows of  inventory_items LEFT JOIN item_tags  the WHERE clause
\* keeps for one item: one joined row per tag row, or a single row with a
\* NULL tag when the item has no tag row.
where_count(item, query) ==
    LET in_item == \/ LIKE(Some(item.name), contains_pattern(query))
                   \/ LIKE(item.description, contains_pattern(query))
    IN  IF tags_of(item.id) = {}
        THEN IF in_item THEN 1 ELSE 0
        ELSE copies_sum({r \in tags_of(item.id) :
                            in_item \/ LIKE(Some(r.tag), contains_pattern(query))})

\* The selected columns of the rows the WHERE clause keeps, as a bag.
search_select(query) ==
    LET hits == {i \in DOMAIN inventory_items : where_count(inventory_items[i], query) > 0}
    IN  [row \in {joined_item(inventory_items[i]) : i \in hits} |->
            where_count(inventory_items[row.id], query)]

\* A variant without DISTINCT.
search_all(rows) == rows

\* SELECT DISTINCT
search_distinct(rows) == SetToBag(BagToSet(rows))

\* The CASE of the ORDER BY clause.
search_rank(row, query) ==
    IF LIKE(Some(row.name), prefix_pattern(query)) THEN 1
    ELSE IF LIKE(Some(row.name), contains_pattern(query)) THEN 2
    ELSE IF LIKE(row.description, contains_pattern(query)) THEN 3
    ELSE 4

\* ORDER BY: every order of the rows in which the rank never decreases; SQL
\* leaves the order of rows of equal rank open.
RECURSIVE search_order(_, _)
search_order(rows, query) ==
    IF rows = EmptyBag THEN {<<>>}
    ELSE LET first == {r \in BagToSet(rows) :
                          \A q \in BagToSet(rows) :
                              search_rank(r, query) <= search_rank(q, query)}
         IN  UNION {{<<r>> \o rest : rest \in search_order(rows (-) SetToBag({r}), query)}
                    : r \in first}

\* A variant that takes only None for "no query": with the empty string the
\* statement runs, and '%%' matches every name.
search_items_is_none(query) ==
    IF query = NULL THEN {<<>>}
    ELSE search_order(search_distinct(search_select(Val(query))), Val(query))

\* The lists search_items can return.
search_items(query) ==
    IF ~TruthyStr(query) THEN {<<>>}
    ELSE search_order(search_distinct(search_select(Val(query))), Val(query))

---------------------------------------------------------------------------
(* app.py: region routes; the region functions of database.py that no      *)
(* route calls are operations of the repository layer in their own right.  *)

region_json(r) ==
    [id |-> r.id, locationId |-> r.location_id, name |-> r.name,
     x |-> r.x_coord, y |-> r.y_coord, width |-> r.width, height |-> r.height]

required_fields == {"name", "x", "y", "width", "height"}

locations_items_unchanged == UNCHANGED <<locations, inventory_items, item_tags>>

get_regions_route(location_id) ==
    /\ Serving
    /\ response' = Respond("get_regions", [location_id |-> location_id], 200,
                           {region_json(location_regions[r]) :
                               r \in get_location_regions(location_id)})
    /\ walk' = IdleWalk
    /\ UNCHANGED <<location_regions, sqlite_sequence>>
    /\ locations_items_unchanged

\* A variant that does not look the location up.
add_region_route_location_unchecked(location_id, data) ==
    /\ Serving
    /\ LET args == [location_id |-> location_id, data |-> data]
       IN  IF data = NULL
           THEN /\ response' = Respond("add_region", args, 400, "Request must be JSON")
                /\ UNCHANGED <<location_regions, sqlite_sequence>>
           ELSE IF ~(required_fields \subseteq DOMAIN Val(data))
           THEN /\ response' = Respond("add_region", args, 400, "Missing required field")
                /\ UNCHANGED <<location_regions, sqlite_sequence>>
           ELSE /\ location_regions' =
                       add_location_region(location_id, Val(data).name, Val(data).x,
                                           Val(data).y, Val(data).width, Val(data).height)
                /\ sqlite_sequence' = [sqlite_sequence EXCEPT
                       !["location_regions"] = lastrowid("location_regions")]
                /\ response' = Respond("add_region", args, 201,
                       region_json(location_regions'[lastrowid("location_regions")]))
    /\ walk' = IdleWalk
    /\ locations_items_unchanged

\* data: the JSON object of the request, a function from its keys; NULL when
\* the request is not JSON.
add_region_route(location_id, data) ==
    /\ Serving
    /\ LET args == [location_id |-> location_id, data |-> data]
       IN  IF get_location_by_id(location_id) = NULL
           THEN /\ response' = Respond("add_region", args, 404, "Location not found")
                /\ UNCHANGED <<location_regions, sqlite_sequence>>
           ELSE IF data = NULL
           THEN /\ response' = Respond("add_region", args, 400, "Request must be JSON")
                /\ UNCHANGED <<location_regions, sqlite_sequence>>
           ELSE IF ~(required_fields \subseteq DOMAIN Val(data))
           THEN /\ response' = Respond("add_region", args, 400, "Missing required field")
                /\ UNCHANGED <<location_regions, sqlite_sequence>>
           ELSE /\ location_regions' =
                       add_location_region(location_id, Val(data).name, Val(data).x,
                                           Val(data).y, Val(data).width, Val(data).height)
                /\ sqlite_sequence' = [sqlite_sequence EXCEPT
                       !["location_regions"] = lastrowid("location_regions")]
                /\ response' = Respond("add_region", args, 201,
                       region_json(location_regions'[lastrowid("location_regions")]))
    /\ walk' = IdleWalk
    /\ locations_items_unchanged

update_location_region_call(region_id, name, x, y, width, height) ==
    /\ Serving
    /\ location_regions' = update_location_region(region_id, name, x, y, width, height)
    /\ response' = Respond("update_location_region", [region_id |-> region_id], 0, TRUE)
    /\ walk' = IdleWalk
    /\ UNCHANGED sqlite_sequence
    /\ locations_items_unchanged

delete_location_region_call(region_id) ==
    /\ Serving
    /\ location_regions' = delete_location_region(region_id)
    /\ response' = Respond("delete_location_region", [region_id |-> region_id], 0, TRUE)
    /\ walk' = IdleWalk
    /\ UNCHANGED sqlite_sequence
    /\ locations_items_unchanged

---------------------------------------------------------------------------
(* app.py: inventory routes. *)

item_json(item) ==
    [id |-> item.id, name |-> item.name, description |-> item.description,
     quantity |-> item.quantity, imagePath |-> uploads_url(item.image_path),
     locationId |-> item.location_id, locationName |-> item.location_name,
     regionId |-> item.region_id, regionName |-> item.region_name]

locations_regions_unchanged == UNCHANGED <<locations, location_regions>>

\* locationId, regionId: the query arguments as filter_holds reads them; the
\* route turns only a non-empty one into a number.
get_inventory_route(locationId, regionId) ==
    /\ Serving
    /\ response' = Respond("get_inventory",
                           [locationId |-> locationId, regionId |-> regionId], 200,
                           {item_json(joined_item(inventory_items[i])) :
                               i \in get_inventory_items(locationId, regionId)})
    /\ walk' = IdleWalk
    /\ UNCHANGED <<inventory_items, item_tags, sqlite_sequence>>
    /\ locations_regions_unchanged

\* A variant that checks the location and not the region.
add_inventory_route_region_unchecked(name, description, quantity, locationId, regionId, image) ==
    /\ Serving
    /\ LET args == [name |-> name, description |-> description, quantity |-> quantity,
                    locationId |-> locationId, regionId |-> regionId, image |-> image]
           desc == IF TruthyStr(description) THEN description ELSE NULL
           qty == IF quantity # NULL THEN Val(quantity) ELSE 1
       IN  IF name = NULL
           THEN /\ response' = Respond("add_inventory", args, 400,
                                       "Missing required field: name")
                /\ UNCHANGED <<inventory_items, item_tags, sqlite_sequence>>
           ELSE IF locationId # NULL /\ get_location_by_id(Val(locationId)) = NULL
           THEN /\ response' = Respond("add_inventory", args, 404, "Location not found")
                /\ UNCHANGED <<inventory_items, item_tags, sqlite_sequence>>
           ELSE /\ inventory_items' =
                       add_inventory_item(name, desc, qty, image, locationId, regionId)
                /\ item_tags' = add_inventory_item_tags(name, desc)
                /\ sqlite_sequence' = [sqlite_sequence EXCEPT
                       !["inventory_items"] = lastrowid("inventory_items")]
                /\ response' = Respond("add_inventory", args, 201,
                       item_json(joined_item(inventory_items'[lastrowid("inventory_items")])))
    /\ walk' = IdleWalk
    /\ locations_regions_unchanged

add_inventory_route(name, description, quantity, locationId, regionId, image) ==
    /\ Serving
    /\ LET args == [name |-> name, description |-> description, quantity |-> quantity,
                    locationId |-> locationId, regionId |-> regionId, image |-> image]
           desc == IF TruthyStr(description) THEN description ELSE NULL
           qty == IF quantity # NULL THEN Val(quantity) ELSE 1
       IN  IF name = NULL
           THEN /\ response' = Respond("add_inventory", args, 400,
                                       "Missing required field: name")
                /\ UNCHANGED <<inventory_items, item_tags, sqlite_sequence>>
           ELSE IF locationId # NULL /\ get_location_by_id(Val(locationId)) = NULL
           THEN /\ response' = Respond("add_inventory", args, 404, "Location not found")
                /\ UNCHANGED <<inventory_items, item_tags, sqlite_sequence>>
           ELSE IF regionId # NULL /\ get_region_by_id(Val(regionId)) = NULL
           THEN /\ response' = Respond("add_inventory", args, 404, "Region not found")
                /\ UNCHANGED <<inventory_items, item_tags, sqlite_sequence>>
           ELSE /\ inventory_items' =
                       add_inventory_item(name, desc, qty, image, locationId, regionId)
                /\ item_tags' = add_inventory_item_tags(name, desc)
                /\ sqlite_sequence' = [sqlite_sequence EXCEPT
                       !["inventory_items"] = lastrowid("inventory_items")]
                /\ response' = Respond("add_inventory", args, 201,
                       item_json(joined_item(inventory_items'[lastrowid("inventory_items")])))
    /\ walk' = IdleWalk
    /\ locations_regions_unchanged

get_inventory_item_route(item_id) ==
    /\ Serving
    /\ LET item == get_inventory_item_by_id(item_id)
       IN  response' =
               IF item = NULL
               THEN Respond("get_inventory_item", [item_id |-> item_id], 404,
                            "Inventory item not found")
               ELSE Respond("get_inventory_item", [item_id |-> item_id], 200,
                            item_json(Val(item)))
    /\ walk' = IdleWalk
    /\ UNCHANGED <<inventory_items, item_tags, sqlite_sequence>>
    /\ locations_regions_unchanged

update_inventory_item_route(item_id, name, description, quantity, locationId, regionId, image) ==
    /\ Serving
    /\ LET args == [item_id |-> item_id, name |-> name, description |-> description,
                    quantity |-> quantity, locationId |-> locationId,
                    regionId |-> regionId, image |-> image]
           item == get_inventory_item_by_id(item_id)
           qty == IF quantity # NULL THEN Val(quantity) ELSE 1
           image_path == IF TruthyStr(image) THEN image ELSE Val(item).image_path
       IN  IF item = NULL
           THEN /\ response' = Respond("update_inventory_item", args, 404,
                                       "Inventory item not found")
                /\ UNCHANGED <<inventory_items, item_tags>>
           ELSE IF NotNullViolated(name)
           THEN /\ response' = Respond("update_inventory_item", args, 500,
                                       "Failed to update inventory item")
                /\ UNCHANGED <<inventory_items, item_tags>>
           ELSE /\ inventory_items' =
                       update_inventory_item(item_id, name, description, qty,
                                             image_path, locationId, regionId)
                /\ item_tags' = update_inventory_item_tags(item_id, name, description)
                /\ response' = Respond("update_inventory_item", args, 200,
                                       item_json(joined_item(inventory_items'[item_id])))
    /\ walk' = IdleWalk
    /\ UNCHANGED sqlite_sequence
    /\ locations_regions_unchanged

delete_inventory_item_route(item_id) ==
    /\ Serving
    /\ IF get_inventory_item_by_id(item_id) = NULL
       THEN /\ response' = Respond("delete_inventory_item", [item_id |-> item_id],
                                   404, "Inventory item not found")
            /\ UNCHANGED inventory_items
       ELSE /\ inventory_items' = delete_inventory_item(item_id)
            /\ response' = Respond("delete_inventory_item", [item_id |-> item_id],
                                   200, "success")
    /\ walk' = IdleWalk
    /\ UNCHANGED <<item_tags, sqlite_sequence>>
    /\ locations_regions_unchanged

\* q: the query argument, NULL when absent.
search_route(q) ==
    /\ Serving
    /\ \E results \in (IF ~TruthyStr(q) THEN {<<>>} ELSE search_items(q)) :
           response' = Respond("search", [q |-> q], 200,
                               [k \in 1..Len(results) |-> item_json(results[k])])
    /\ walk' = IdleWalk
    /\ UNCHANGED <<inventory_items, item_tags, sqlite_sequence>>
    /\ locations_regions_unchanged

---------------------------------------------------------------------------
(* app.py: the LED route. *)

\* A variant that floors: a // b.
floor_div(a, b) == [num |-> a \div b, den |-> 1]

\* a / b of Python 3, the quotient itself and not its floor, as a fraction.
true_div(a, b) == [num |-> a, den |-> b]

\* n + q for a number n and a fraction q.
plus(n, q) == [num |-> n * q.den + q.num, den |-> q.den]

ledPosition(region) ==
    [x |-> plus(region.x_coord, true_div(region.width, 2)),
     y |-> plus(region.y_coord, true_div(region.height, 2))]

\* The region the route looks up for an item.
led_region(item) == get_region_by_id(Val(item.region_id))

led_route(item_id) ==
    /\ Serving
    /\ LET item == get_inventory_item_by_id(item_id)
           location == get_location_by_id(Val(Val(item).location_id))
           region == led_region(Val(item))
           args == [item_id |-> item_id]
       IN  response' =
               IF item = NULL
               THEN Respond("led", args, 404, "Inventory item not found")
               ELSE IF ~TruthyInt(Val(item).location_id) \/ ~TruthyInt(Val(item).region_id)
               THEN Respond("led", args, 400,
                            "Item does not have a specific location with region")
               ELSE IF location = NULL \/ region = NULL
               THEN Respond("led", args, 404, "Location or region not found")
               ELSE Respond("led", args, 200,
                            [item |-> [id |-> Val(item).id, name |-> Val(item).name],
                             location |-> [id |-> Val(location).id,
                                           name |-> Val(location).name],
                             region |-> [id |-> Val(region).id, name |-> Val(region).name,
                                         x |-> Val(region).x_coord,
                                         y |-> Val(region).y_coord,
                                         width |-> Val(region).width,
                                         height |-> Val(region).height],
                             ledPosition |-> ledPosition(Val(region))])
    /\ walk' = IdleWalk
    /\ UNCHANGED <<inventory_items, item_tags, sqlite_sequence>>
    /\ locations_regions_unchanged

---------------------------------------------------------------------------
(* The state after init_db on a fresh database file: every table empty.   *)

Init ==
    /\ locations = EmptyTable
    /\ location_regions = EmptyTable
    /\ inventory_items = EmptyTable
    /\ item_tags = EmptyBag
    /\ sqlite_sequence = [t \in {"locations", "location_regions", "inventory_items"} |-> 0]
    /\ walk = IdleWalk
    /\ response = Respond("none", NULL, 0, "none")

---------------------------------------------------------------------------
(* The location hierarchy on its own: the requests on locations, with the *)
(* arguments a client can send.                                           *)

\* Ids a request can name: every id the table can hold, and 0.
LocationIdArgs == 0..MaxLocations

LocationNames == {NULL, Some(<<"A">>)}

NextLocations ==
    \/ \E parentId \in {NULL} \cup {Some(p) : p \in LocationIdArgs},
          root \in {NULL, Some("true")} :
           get_locations_route(parentId, root)
    \/ \E name \in LocationNames,
          parentId \in {NULL} \cup {Some(p) : p \in LocationIdArgs} :
           /\ sqlite_sequence["locations"] < MaxLocations
           /\ add_location_route(name, NULL, parentId, NULL)
    \/ \E id \in LocationIdArgs : get_location_route(id)
    \/ \E id \in LocationIdArgs, name \in LocationNames,
          parentId \in {NULL} \cup {Some(p) : p \in LocationIdArgs} :
           update_location_route(id, name, NULL, parentId, NULL)
    \/ \E id \in LocationIdArgs : delete_location_route(id)
    \/ \E id \in LocationIdArgs : get_breadcrumbs_route(id)
    \/ get_location_breadcrumbs_loop

SpecLocations == Init /\ [][NextLocations]_vars

---------------------------------------------------------------------------
(* Items, their tags and the search, on strings chosen to reach every      *)
(* branch of the ORDER BY: a name that starts with W, one that contains    *)
(* it, one with a LIKE wildcard in it and a letter whose lower case only   *)
(* str.lower() knows, and the empty name; a description with two long      *)
(* words, one of them with a wildcard in it, and a short word.             *)

Str_W == <<"W">>
Str_bW == <<"b", "W">>
Str_Auml_ == <<"Auml", "_">>
Str_desc == <<"W", "b", "w", "b", " ", "w", "b", "_", "b", " ", "w", "b">>

SearchNames == {Some(<<>>), Some(Str_W), Some(Str_bW), Some(Str_Auml_)}
SearchDescriptions == {NULL, Some(Str_desc)}
SearchQueries == {NULL, Some(<<>>), Some(<<"W">>), Some(<<"_">>), Some(<<"auml">>)}
ItemIdArgs == 1..MaxItems

NextInventory ==
    \/ \E name \in SearchNames \cup {NULL}, description \in SearchDescriptions :
           /\ sqlite_sequence["inventory_items"] < MaxItems
           /\ add_inventory_route(name, description, NULL, NULL, NULL, NULL)
    \/ \E id \in ItemIdArgs, name \in SearchNames, description \in SearchDescriptions :
           update_inventory_item_route(id, name, description, NULL, NULL, NULL, NULL)
    \/ \E id \in ItemIdArgs : delete_inventory_item_route(id)
    \/ \E q \in SearchQueries : search_route(q)

SpecInventory == Init /\ [][NextInventory]_vars

---------------------------------------------------------------------------
(* The tags of the first item created on a fresh database, for every       *)
(* description up to MaxDescLen characters and the description of the      *)
(* documentation's example.                                                *)

TagAlphabet == {"a", "B", " "}

Str_example == <<"a", " ", "s", "t", "u", "r", "d", "y", " ",
                 "w", "o", "o", "d", "e", "n", " ", "s", "h", "e", "l", "f">>

TagDescriptions ==
    {NULL, Some(Str_example)}
        \cup {Some(d) : d \in UNION {[1..n -> TagAlphabet] : n \in 0..MaxDescLen}}

TagNames == {NULL, Some(<<>>), Some(<<"W">>), Some(<<"a", "B", " ", "a">>)}

NextTags ==
    \E name \in TagNames, description \in TagDescriptions :
        /\ inventory_items = EmptyTable /\ item_tags = EmptyBag
        /\ response.route = "none"
        /\ add_inventory_route(name, description, NULL, NULL, NULL, NULL)

SpecTags == Init /\ [][NextTags]_vars

---------------------------------------------------------------------------
(* Locations, and the items stored in them, under deletion: what a deleted *)
(* location leaves behind.                                                 *)

NextOrphans ==
    \/ \E parentId \in {NULL, Some(1)} :
           /\ sqlite_sequence["locations"] < MaxLocations
           /\ add_location_route(Some(<<"A">>), NULL, parentId, NULL)
    \/ \E id \in 1..MaxLocations : delete_location_route(id)
    \/ \E id \in 1..MaxLocations : get_location_route(id)
    \/ \E locationId \in {NULL} \cup {Some(l) : l \in 1..MaxLocations} :
           /\ sqlite_sequence["inventory_items"] < MaxItems
           /\ add_inventory_route(Some(Str_W), NULL, NULL, locationId, NULL, NULL)
    \/ \E id \in ItemIdArgs : get_inventory_item_route(id)

SpecOrphans == Init /\ [][NextOrphans]_vars

---------------------------------------------------------------------------
(* One item in one location with up to MaxRegions regions: the item, its   *)
(* location and its regions come and go, the item's references are set to  *)
(* every value a client can send, and the item is read back by the LED     *)
(* lookup, by id and in the list.                                          *)

RegionData ==
    {NULL,
     Some([name |-> <<"r">>, x |-> 10, y |-> 20]),
     Some([name |-> <<"r">>, x |-> 10, y |-> 20, width |-> 40, height |-> 60]),
     Some([name |-> <<"s">>, x |-> 1, y |-> 2, width |-> 3, height |-> 5])}

LedLocationArgs == {NULL, Some(0), Some(1), Some(2)}
LedRegionArgs == {NULL} \cup {Some(r) : r \in 0..MaxRegions}

\* The locationId argument of the list: absent, or the one location.
LedListFilters == {[kind |-> "none"], [kind |-> "int", n |-> 1]}

NextLed ==
    \/ /\ sqlite_sequence["locations"] = 0
       /\ add_location_route(Some(<<"A">>), NULL, NULL, NULL)
    \/ delete_location_route(1)
    \/ \E data \in RegionData :
           /\ sqlite_sequence["location_regions"] < MaxRegions
           /\ add_region_route(1, data)
    \/ \E id \in 1..MaxRegions : delete_location_region_call(id)
    \/ \E name \in {NULL, Some(Str_W)},
          locationId \in LedLocationArgs, regionId \in LedRegionArgs :
           /\ sqlite_sequence["inventory_items"] = 0
           /\ add_inventory_route(name, NULL, NULL, locationId, regionId, NULL)
    \/ \E locationId \in LedLocationArgs, regionId \in LedRegionArgs :
           update_inventory_item_route(1, Some(Str_W), NULL, NULL, locationId, regionId, NULL)
    \/ delete_inventory_item_route(1)
    \/ led_route(1)
    \/ get_location_route(1)
    \/ update_location_route(1, Some(<<"A">>), NULL, NULL, NULL)
    \/ get_inventory_item_route(1)
    \/ \E locationId \in LedListFilters : get_inventory_route(locationId, [kind |-> "none"])

SpecLed == Init /\ [][NextLed]_vars

---------------------------------------------------------------------------
(* The fields of a location through create, read, update and delete: up to *)
(* MaxFieldLocations locations, each field with a value and without.       *)

FieldNames == {Some(<<"A">>), Some(<<"B">>)}
FieldDescriptions == {NULL, Some(<<"d">>)}
FieldParents == {NULL, Some(1)}
FieldImages == {NULL, Some(<<"f">>)}

NextFields ==
    \/ \E name \in FieldNames, description \in FieldDescriptions,
          parentId \in FieldParents, image \in FieldImages :
           /\ sqlite_sequence["locations"] < MaxFieldLocations
           /\ add_location_route(name, description, parentId, image)
    \/ \E id \in 1..MaxFieldLocations : get_location_route(id)
    \/ \E id \in 1..MaxFieldLocations, name \in FieldNames,
          description \in FieldDescriptions, parentId \in FieldParents,
          image \in FieldImages :
           update_location_route(id, name, description, parentId, image)
    \/ \E id \in 1..MaxFieldLocations : delete_location_route(id)

SpecFields == Init /\ [][NextFields]_vars

---------------------------------------------------------------------------
(* The regions of up to MaxLocations locations: a region is created with   *)
(* every field, with one of the five fields left out or with a body that   *)
(* is not JSON, in a location that is stored, was deleted or never was.    *)

RegionFull == [name |-> <<"r">>, x |-> 10, y |-> 20, width |-> 40, height |-> 60]

\* The JSON object without one of its keys.
RegionWithout(field) == [k \in DOMAIN RegionFull \ {field} |-> RegionFull[k]]

RegionBodies == {NULL, Some(RegionFull)} \cup {Some(RegionWithout(f)) : f \in required_fields}

NextRegions ==
    \/ /\ sqlite_sequence["locations"] < MaxLocations
       /\ add_location_route(Some(<<"A">>), NULL, NULL, NULL)
    \/ \E id \in 1..MaxLocations : delete_location_route(id)
    \/ \E id \in 1..MaxLocations, data \in RegionBodies :
           /\ sqlite_sequence["location_regions"] < MaxRegions
           /\ add_region_route(id, data)
    \/ \E id \in 1..MaxLocations : get_regions_route(id)

SpecRegions == Init /\ [][NextRegions]_vars

---------------------------------------------------------------------------
(* The list of the inventory under its filters: up to MaxItems items whose *)
(* location_id and region_id are set by updates, which store any id, and   *)
(* the list asked for with each filter absent, empty or a number.          *)

ListIdArgs == {NULL, Some(1), Some(2)}

ListFilters ==
    {[kind |-> "none"], [kind |-> "empty"]} \cup {[kind |-> "int", n |-> n] : n \in 1..2}

NextList ==
    \/ /\ sqlite_sequence["inventory_items"] < MaxItems
       /\ add_inventory_route(Some(Str_W), NULL, NULL, NULL, NULL, NULL)
    \/ \E id \in ItemIdArgs, locationId \in ListIdArgs, regionId \in ListIdArgs :
           update_inventory_item_route(id, Some(Str_W), NULL, NULL, locationId, regionId, NULL)
    \/ \E id \in ItemIdArgs : delete_inventory_item_route(id)
    \/ \E locationId \in ListFilters, regionId \in ListFilters :
           get_inventory_route(locationId, regionId)

SpecList == Init /\ [][NextList]_vars

---------------------------------------------------------------------------
(* Properties of the location hierarchy (SpecLocations). *)

\* C1: breadcrumb resolution ends on a cyclic parent chain: a walk that meets
\* a location already on its path stops there with a corruption error, so the
\* path it builds never holds the same location twice.
C1_BreadcrumbsStopOnCycle ==
    \A i, j \in 1..Len(walk.breadcrumbs) :
        i # j => walk.breadcrumbs[i].id # walk.breadcrumbs[j].id

\* The number of locations on the parent chain of id, itself included, when
\* the chain ends at a root within fuel steps; 0 when it meets a missing row
\* or does not end.
RECURSIVE chain_depth(_, _)
chain_depth(id, fuel) ==
    IF fuel = 0 \/ id \notin DOMAIN locations THEN 0
    ELSE IF locations[id].parent_id = NULL THEN 1
    ELSE LET above == chain_depth(Val(locations[id].parent_id), fuel - 1)
         IN  IF above = 0 THEN 0 ELSE above + 1

\* The parent chain of id is acyclic and all of its rows exist.
chain_sound(id) == chain_depth(id, Cardinality(DOMAIN locations)) > 0

\* C2: get_location_breadcrumbs returns, for a location with a sound parent
\* chain, the stored rows of the chain root first: the first has no parent,
\* each later one has the one before it as parent, the last is the location
\* asked for, and there are as many as the location is deep; for an id that
\* does not exist it returns the empty list.
C2_BreadcrumbsRootFirst ==
    walk.pc = "done" =>
        LET id == walk.location_id
            r == walk.breadcrumbs
        IN  /\ id \notin DOMAIN locations => r = <<>>
            /\ id \in DOMAIN locations /\ chain_sound(id) =>
                /\ Len(r) = chain_depth(id, Cardinality(DOMAIN locations))
                /\ r[1].parent_id = NULL
                /\ r[Len(r)].id = id
                /\ \A k \in 1..Len(r) : r[k] = locations[r[k].id]
                /\ \A k \in 1..(Len(r) - 1) : r[k + 1].parent_id = Some(r[k].id)

\* A walk has returned the path of a location three levels deep.
C2_Witness ==
    /\ walk.pc = "done"
    /\ walk.location_id \in DOMAIN locations
    /\ chain_sound(walk.location_id)
    /\ Len(walk.breadcrumbs) = 3
    /\ response.status = 200

\* C10: listing by parent id P answers exactly the stored locations whose
\* parent_id is P, and no location with another parent or none.
C10_ListByParent ==
    response.route = "get_locations" /\ response.args.parentId # NULL =>
        /\ \A l \in DOMAIN locations :
               location_json(locations[l]) \in response.body
                   <=> locations[l].parent_id = response.args.parentId
        /\ \A b \in response.body :
               /\ b.id \in DOMAIN locations
               /\ b = location_json(locations[b.id])

\* A listing by parent that answered some locations and left others out,
\* a root among them.
C10_Witness ==
    /\ response.route = "get_locations"
    /\ response.args.parentId # NULL
    /\ response.body # {}
    /\ \E l \in DOMAIN locations : locations[l].parent_id = NULL
    /\ \E l \in DOMAIN locations :
           locations[l].parent_id \notin {NULL, response.args.parentId}

---------------------------------------------------------------------------
(* Properties of deletion (SpecOrphans). *)

\* C5: deleting a location removes that location's row and nothing else:
\* every other location, the children of the deleted one among them, and
\* every item are stored as before, and the children and the items that
\* referred to it are still found by id, with the deleted id as their
\* parent_id / location_id.
C5_DeleteLocationNoCascade ==
    [][\A id \in 1..MaxLocations :
          delete_location_route(id) /\ response'.status = 200 =>
              /\ DOMAIN locations' = DOMAIN locations \ {id}
              /\ \A l \in DOMAIN locations \ {id} :
                     /\ l \in DOMAIN locations'
                     /\ locations'[l] = locations[l]
              /\ inventory_items' = inventory_items
              /\ item_tags' = item_tags
              /\ \A l \in DOMAIN locations \ {id} :
                     locations[l].parent_id = Some(id) =>
                         /\ get_location_by_id(l)' # NULL
                         /\ Val(get_location_by_id(l)').parent_id = Some(id)
              /\ \A i \in DOMAIN inventory_items :
                     inventory_items[i].location_id = Some(id) =>
                         /\ get_inventory_item_by_id(i)' # NULL
                         /\ Val(get_inventory_item_by_id(i)').location_id = Some(id)
      ]_vars

\* A location has just been deleted that a child location and an item refer to.
C5_Witness ==
    /\ response.route = "delete_location"
    /\ response.status = 200
    /\ \E l \in DOMAIN locations :
           locations[l].parent_id = Some(response.args.location_id)
    /\ \E i \in DOMAIN inventory_items :
           inventory_items[i].location_id = Some(response.args.location_id)

---------------------------------------------------------------------------
(* Properties of the LED lookup (SpecLed). *)

\* C6: the LED lookup answers not-found (404) when the item does not exist;
\* otherwise the no-location-context error (400) when the item's location_id
\* or region_id is null; otherwise not-found (404) when the location row or
\* the region row it refers to does not exist; and it succeeds (200) only
\* when item, location and region all exist.
C6_LedFailureOrder ==
    response.route = "led" =>
        LET id == response.args.item_id
            item == inventory_items[id]
        IN  response.status =
                IF id \notin DOMAIN inventory_items THEN 404
                ELSE IF item.location_id = NULL \/ item.region_id = NULL THEN 400
                ELSE IF \/ Val(item.location_id) \notin DOMAIN locations
                        \/ Val(item.region_id) \notin DOMAIN location_regions
                     THEN 404
                ELSE 200

\* C7: a successful LED lookup answers the center (x + width/2,
\* y + height/2) of the stored region the item refers to, and that region.
C7_LedCenter ==
    response.route = "led" /\ response.status = 200 =>
        LET item == inventory_items[response.args.item_id]
            region == location_regions[Val(item.region_id)]
            at == response.body.ledPosition
        IN  /\ response.body.region.id = Val(item.region_id)
            /\ 2 * at.x.num = at.x.den * (2 * region.x_coord + region.width)
            /\ 2 * at.y.num = at.y.den * (2 * region.y_coord + region.height)

\* A lookup answered (30, 50) for the region {x: 10, y: 20, width: 40,
\* height: 60} while another region was stored.
C7_Witness ==
    /\ response.route = "led"
    /\ response.status = 200
    /\ response.body.region.x = 10 /\ response.body.region.y = 20
    /\ response.body.region.width = 40 /\ response.body.region.height = 60
    /\ response.body.ledPosition.x.num = 30 * response.body.ledPosition.x.den
    /\ response.body.ledPosition.y.num = 50 * response.body.ledPosition.y.den
    /\ Cardinality(DOMAIN location_regions) >= 2

---------------------------------------------------------------------------
(* Properties of the tags (SpecTags, SpecInventory). *)

\* The whitespace-separated words of s: its maximal runs of characters that
\* are not whitespace.
words_of(s) ==
    {SubSeq(s, p[1], p[2]) : p \in
        {p \in (1..Len(s)) \X (1..Len(s)) :
            /\ p[1] <= p[2]
            /\ \A k \in p[1]..p[2] : s[k] \notin Whitespace
            /\ p[1] = 1 \/ s[p[1] - 1] \in Whitespace
            /\ p[2] = Len(s) \/ s[p[2] + 1] \in Whitespace}}

\* The tags a description stands for: its lower-case words longer than 3.
long_words(description) ==
    IF description = NULL THEN {}
    ELSE {w \in words_of(lower(Val(description))) : Len(w) > 3}

\* The tags stored for an item.
stored_tags(item_id) == {r.tag : r \in tags_of(item_id)}

\* C8 as stated: a created item's tags are its lower-case name and the
\* lower-case words of its description longer than 3, whatever the name.
C8_TagsOfNewItem ==
    response.route = "add_inventory" /\ response.status = 201 =>
        stored_tags(response.body.id) =
            {lower(response.body.name)} \cup long_words(response.args.description)

\* C8: a created item's tags are its lower-case name, when the name is not
\* empty, and the lower-case whitespace-separated words of its description
\* longer than 3; shorter words give no tag, and "a sturdy wooden shelf"
\* gives sturdy, wooden and shelf.
C8_TagsOfNewItemNamed ==
    response.route = "add_inventory" /\ response.status = 201 =>
        /\ stored_tags(response.body.id) =
               (IF response.body.name = <<>> THEN {} ELSE {lower(response.body.name)})
                   \cup long_words(response.args.description)
        /\ response.args.description = Some(Str_example) =>
               stored_tags(response.body.id) \ {lower(response.body.name)} =
                   {<<"s", "t", "u", "r", "d", "y">>, <<"w", "o", "o", "d", "e", "n">>,
                    <<"s", "h", "e", "l", "f">>}

\* An item was created with the example's description and has four tags.
C8_Witness ==
    /\ response.route = "add_inventory"
    /\ response.status = 201
    /\ response.args.description = Some(Str_example)
    /\ response.body.name # <<>>
    /\ Cardinality(stored_tags(response.body.id)) = 4

\* C9: an update of an existing item leaves that item with exactly the tags
\* of its new name and new description, so none of the old ones unless the
\* new values give it too, and leaves the tag rows of every other item as
\* they were.
C9_UpdateRegeneratesTags ==
    [][response'.route = "update_inventory_item" /\ response'.status = 200 =>
          LET id == response'.args.item_id
          IN  /\ {r.tag : r \in {t \in DOMAIN item_tags' : t.item_id = id}} =
                     (IF inventory_items'[id].name = <<>> THEN {}
                      ELSE {lower(inventory_items'[id].name)})
                         \cup long_words(inventory_items'[id].description)
              /\ \A r \in DOMAIN item_tags \cup DOMAIN item_tags' :
                     r.item_id # id =>
                         /\ r \in DOMAIN item_tags /\ r \in DOMAIN item_tags'
                         /\ item_tags'[r] = item_tags[r]
      ]_vars

\* An item has just been updated to a name and no description, so that its
\* one tag is the new name, while another item has tags of its own.
C9_Witness ==
    /\ response.route = "update_inventory_item"
    /\ response.status = 200
    /\ Cardinality(stored_tags(response.args.item_id)) = 1
    /\ \E r \in DOMAIN item_tags : r.item_id # response.args.item_id

---------------------------------------------------------------------------
(* Properties of the search (SpecInventory). *)

\* q is at the start of s, up to ASCII case.
starts_with(s, q) ==
    /\ Len(q) <= Len(s)
    /\ \A k \in 1..Len(q) : like_fold(s[k]) = like_fold(q[k])

\* q is a substring of s, up to ASCII case.
contains(s, q) ==
    \E from \in 0..(Len(s) - Len(q)) :
        \A k \in 1..Len(q) : like_fold(s[from + k]) = like_fold(q[k])

\* The tier of a result: 1 its name starts with q, 2 its name contains q,
\* 3 its description contains q, 4 only a tag of it contains q; 0 when q is
\* in none of them.
tier(item, q) ==
    IF starts_with(item.name, q) THEN 1
    ELSE IF contains(item.name, q) THEN 2
    ELSE IF item.description # NULL /\ contains(Val(item.description), q) THEN 3
    ELSE IF \E r \in tags_of(item.id) : contains(r.tag, q) THEN 4
    ELSE 0

\* C3: the results of a search for a non-empty q come in the order of their
\* tiers: names that start with q, then names that contain q, then matches
\* by description, then matches by tag alone.
C3_ResultsInTierOrder ==
    response.route = "search" /\ TruthyStr(response.args.q) =>
        \A i, j \in 1..Len(response.body) :
            LET q == Val(response.args.q)
                before == tier(response.body[i], q)
                after == tier(response.body[j], q)
            IN  i < j /\ before # 0 /\ after # 0 => before <= after

\* C4: no search answers the same item twice.
C4_NoDuplicateResults ==
    response.route = "search" =>
        \A i, j \in 1..Len(response.body) :
            i # j => response.body[i].id # response.body[j].id

\* A search answered an item that matches by its name, by its description
\* and by two or more of its tags.
C4_Witness ==
    /\ response.route = "search"
    /\ TruthyStr(response.args.q)
    /\ \E k \in 1..Len(response.body) :
           LET item == response.body[k]
               q == Val(response.args.q)
           IN  /\ contains(item.name, q)
               /\ item.description # NULL /\ contains(Val(item.description), q)
               /\ Cardinality({r \in tags_of(item.id) : contains(r.tag, q)}) >= 2

---------------------------------------------------------------------------
(* The empty query (SpecInventory). *)

\* C11: a search with an empty or an absent query is answered with the empty
\* list and not with an error, whatever is stored: search_items returns [],
\* and the route answers 200 with [].
C11_EmptyQueryEmptyList ==
    /\ \A query \in {NULL, Some(<<>>)} : search_items(query) = {<<>>}
    /\ response.route = "search" /\ ~TruthyStr(response.args.q) =>
           response.status = 200 /\ response.body = <<>>

\* A search with the empty string was answered while an item was stored.
C11_Witness ==
    /\ response.route = "search"
    /\ response.args.q = Some(<<>>)
    /\ response.status = 200
    /\ DOMAIN inventory_items # {}

---------------------------------------------------------------------------
(* Properties of the fields of a location (SpecFields). *)

\* C13: a location that was created is read back as it was created: the
\* creation answers a new id, the id of no location stored until then, under
\* which the name, the parent id and the description given are stored; a read
\* answers what is stored; and a stored location stays as it is under every
\* request but an update or a delete of its own id.
C13_CreateReadRoundTrip ==
    [][/\ response'.route = "add_location" /\ response'.status = 201 =>
              LET id == response'.body.id
                  args == response'.args
              IN  /\ id \notin DOMAIN locations
                  /\ id \in DOMAIN locations'
                  /\ locations'[id].name = Val(args.name)
                  /\ locations'[id].parent_id = args.parentId
                  /\ locations'[id].description = args.description
       /\ response'.route = "get_location"
          /\ response'.args.location_id \in DOMAIN locations' =>
              LET id == response'.args.location_id
              IN  /\ response'.status = 200
                  /\ response'.body.id = id
                  /\ response'.body.name = locations'[id].name
                  /\ response'.body.parentId = locations'[id].parent_id
                  /\ response'.body.description = locations'[id].description
       /\ \A l \in DOMAIN locations :
              \/ /\ response'.route \in {"update_location", "delete_location"}
                 /\ response'.args.location_id = l
              \/ l \in DOMAIN locations' /\ locations'[l] = locations[l]
      ]_vars

\* The second location, created with a parent and a description, was read
\* back with them.
C13_Witness ==
    /\ response.route = "get_location"
    /\ response.status = 200
    /\ response.body.id = 2
    /\ response.body.parentId = Some(1)
    /\ response.body.description = Some(<<"d">>)
    /\ 1 \in DOMAIN locations

\* C17: an update of a location keeps the stored value of a field the request
\* leaves out: an update that gives only a name and a description leaves
\* parent_id and image_path as they were stored.
C17_UpdateKeepsOmittedFields ==
    [][/\ response'.route = "update_location" /\ response'.status = 200
       /\ response'.args.parentId = NULL /\ response'.args.image = NULL
       => LET id == response'.args.location_id
          IN  /\ locations'[id].parent_id = locations[id].parent_id
              /\ locations'[id].image_path = locations[id].image_path
      ]_vars

---------------------------------------------------------------------------
(* Properties of one item, its location and its regions (SpecLed). *)

\* The stored rows: locations, regions, items and tags.
store == <<locations, location_regions, inventory_items, item_tags>>

\* C12: a get, an update or a delete of a location whose id is not stored,
\* and likewise of an item whose id is not stored, answers not-found and
\* leaves every stored location, region, item and tag as it was.
C12_UnknownIdNotFound ==
    [][/\ /\ response'.route \in {"get_location", "update_location", "delete_location"}
          /\ response'.args.location_id \notin DOMAIN locations
          => response'.status = 404 /\ UNCHANGED store
       /\ /\ response'.route \in {"get_inventory_item", "update_inventory_item",
                                  "delete_inventory_item"}
          /\ response'.args.item_id \notin DOMAIN inventory_items
          => response'.status = 404 /\ UNCHANGED store
      ]_vars

\* A delete of the item was answered not-found after the item was deleted,
\* while a location, a region and the tag rows of the deleted item are stored.
C12_Witness ==
    /\ response.route = "delete_inventory_item"
    /\ response.status = 404
    /\ response.args.item_id \notin DOMAIN inventory_items
    /\ DOMAIN locations # {}
    /\ DOMAIN location_regions # {}
    /\ item_tags # EmptyBag

\* C14: a creation of an item without a name is refused as invalid, and one
\* with a locationId or a regionId that is not the id of a stored row is
\* refused as not found; either way no item row and no tag row is added.
C14_CreateItemRejected ==
    [][response'.route = "add_inventory" =>
          LET args == response'.args
              no_location == /\ args.locationId # NULL
                             /\ Val(args.locationId) \notin DOMAIN locations
              no_region == /\ args.regionId # NULL
                           /\ Val(args.regionId) \notin DOMAIN location_regions
          IN  /\ args.name = NULL =>
                     response'.status = 400 /\ UNCHANGED <<inventory_items, item_tags>>
              /\ args.name # NULL /\ (no_location \/ no_region) =>
                     response'.status = 404 /\ UNCHANGED <<inventory_items, item_tags>>
      ]_vars

\* A creation with a stored location and a region that is not stored was
\* refused as not found, and no item is stored.
C14_Witness ==
    /\ response.route = "add_inventory"
    /\ response.status = 404
    /\ response.args.name # NULL
    /\ response.args.locationId # NULL
    /\ Val(response.args.locationId) \in DOMAIN locations
    /\ response.args.regionId # NULL
    /\ Val(response.args.regionId) \notin DOMAIN location_regions
    /\ DOMAIN inventory_items = {}

\* The item's location_id is set and is the id of no stored location.
dangling_location(item) ==
    item.location_id # NULL /\ Val(item.location_id) \notin DOMAIN locations

\* The item's region_id is set and is the id of no stored region.
dangling_region(item) ==
    item.region_id # NULL /\ Val(item.region_id) \notin DOMAIN location_regions

\* What a read is to answer for a stored item: its row with its ids as they
\* are stored, and a null name for a reference that is dangling.
read_back(json, item) ==
    /\ json.id = item.id /\ json.name = item.name
    /\ json.locationId = item.location_id /\ json.regionId = item.region_id
    /\ dangling_location(item) => json.locationName = NULL
    /\ dangling_region(item) => json.regionName = NULL

\* C15: the list of the inventory (of all items, or of those of one location)
\* and the read of one item answer every stored item asked for, also one
\* whose location_id or region_id is the id of a row that is not there: it
\* comes with a null name and the id as stored.
C15_DanglingItemsReturned ==
    /\ response.route = "get_inventory" =>
           /\ response.status = 200
           /\ \A i \in DOMAIN inventory_items :
                  LET asked == response.args.locationId
                  IN  \/ asked.kind = "none"
                      \/ /\ asked.kind = "int"
                         /\ inventory_items[i].location_id = Some(asked.n)
                      => \E json \in response.body : read_back(json, inventory_items[i])
    /\ response.route = "get_inventory_item"
       /\ response.args.item_id \in DOMAIN inventory_items =>
           /\ response.status = 200
           /\ read_back(response.body, inventory_items[response.args.item_id])

\* The list answered an item whose location and region are both dangling.
C15_Witness ==
    /\ response.route = "get_inventory"
    /\ \E i \in DOMAIN inventory_items :
           /\ dangling_location(inventory_items[i])
           /\ dangling_region(inventory_items[i])
           /\ \E json \in response.body : json.id = i /\ json.locationName = NULL

\* C16: the deletion of a region takes that region's row away and nothing
\* else: the items, those that refer to the region too, stay as they are with
\* their region_id, and so do the locations and the other regions.
C16_DeleteRegionNoCascade ==
    [][response'.route = "delete_location_region" =>
          LET region_id == response'.args.region_id
          IN  /\ DOMAIN location_regions' = DOMAIN location_regions \ {region_id}
              /\ \A r \in DOMAIN location_regions' :
                     location_regions'[r] = location_regions[r]
              /\ inventory_items' = inventory_items
              /\ item_tags' = item_tags
              /\ locations' = locations
      ]_vars

\* A region that was created is deleted, the item still refers to it, and
\* the other region is stored.
C16_Witness ==
    /\ response.route = "delete_location_region"
    /\ response.args.region_id <= sqlite_sequence["location_regions"]
    /\ response.args.region_id \notin DOMAIN location_regions
    /\ DOMAIN location_regions # {}
    /\ \E i \in DOMAIN inventory_items :
           inventory_items[i].region_id = Some(response.args.region_id)

\* C18: an update of an item with a locationId or a regionId that is the id
\* of no stored row is answered not-found and changes neither the item's row
\* nor its tags.
C18_UpdateValidatesReferences ==
    [][response'.route = "update_inventory_item" =>
          LET args == response'.args
              no_location == /\ args.locationId # NULL
                             /\ Val(args.locationId) \notin DOMAIN locations
              no_region == /\ args.regionId # NULL
                           /\ Val(args.regionId) \notin DOMAIN location_regions
          IN  no_location \/ no_region =>
                  response'.status = 404 /\ UNCHANGED <<inventory_items, item_tags>>
      ]_vars

---------------------------------------------------------------------------
(* What a search returns, and what the tag table holds (SpecInventory). *)

\* C19: a search for a non-empty q answers exactly the stored items that
\* have q as a substring, letter case aside, of the name, of the description
\* or of a stored tag: each of them, none else, and none that was deleted.
C19_ResultsAreTheMatches ==
    response.route = "search" /\ TruthyStr(response.args.q) =>
        {response.body[k].id : k \in 1..Len(response.body)} =
            {i \in DOMAIN inventory_items :
                tier(inventory_items[i], Val(response.args.q)) # 0}

\* C20: every stored tag row is a row of an item that is stored and is a tag
\* of that item's name or description as they are now; so the deletion of
\* an item leaves no tag row of its id.
C20_TagsBelongToItems ==
    \A r \in DOMAIN item_tags :
        /\ r.item_id \in DOMAIN inventory_items
        /\ r.tag \in (IF inventory_items[r.item_id].name = <<>> THEN {}
                      ELSE {lower(inventory_items[r.item_id].name)})
                         \cup long_words(inventory_items[r.item_id].description)

---------------------------------------------------------------------------
(* Breadcrumbs of a broken hierarchy (SpecLocations). *)

\* The number of locations on the parent chain of id, itself included, when
\* the chain ends within fuel steps at a location whose parent_id is set and
\* is the id of no stored row; 0 when it ends at a root or does not end.
RECURSIVE gap_depth(_, _)
gap_depth(id, fuel) ==
    IF fuel = 0 \/ id \notin DOMAIN locations THEN 0
    ELSE IF locations[id].parent_id = NULL THEN 0
    ELSE IF Val(locations[id].parent_id) \notin DOMAIN locations THEN 1
    ELSE LET above == gap_depth(Val(locations[id].parent_id), fuel - 1)
         IN  IF above = 0 THEN 0 ELSE above + 1

\* C22: when the parent chain of a stored location comes to a parent_id whose
\* row is missing, get_location_breadcrumbs stops there and returns, with no
\* error, the path from the highest ancestor that is stored down to the
\* location asked for, which is its last element.
C22_BreadcrumbsStopAtGap ==
    walk.pc = "done" /\ walk.location_id \in DOMAIN locations
    /\ gap_depth(walk.location_id, Cardinality(DOMAIN locations)) > 0 =>
        LET id == walk.location_id
            r == walk.breadcrumbs
        IN  /\ Len(r) = gap_depth(id, Cardinality(DOMAIN locations))
            /\ r[Len(r)].id = id
            /\ \A k \in 1..Len(r) : r[k] = locations[r[k].id]
            /\ \A k \in 1..(Len(r) - 1) : r[k + 1].parent_id = Some(r[k].id)
            /\ r[1].parent_id # NULL
            /\ Val(r[1].parent_id) \notin DOMAIN locations
            /\ response.route = "get_breadcrumbs"
            /\ response.status = 200
            /\ Len(response.body) = Len(r)
            /\ response.body[Len(r)].id = id

\* A walk has returned the two locations below a parent that was deleted.
C22_Witness ==
    /\ walk.pc = "done"
    /\ walk.location_id \in DOMAIN locations
    /\ gap_depth(walk.location_id, Cardinality(DOMAIN locations)) = 2
    /\ Len(walk.breadcrumbs) = 2
    /\ \E p \in 1..MaxLocations :
           /\ walk.breadcrumbs[1].parent_id = Some(p)
           /\ p \notin DOMAIN locations
           /\ p <= sqlite_sequence["locations"]
    /\ response.status = 200

---------------------------------------------------------------------------
(* Properties of the creation of regions (SpecRegions). *)

\* C21: the creation of a region is refused as not found when its location
\* is not stored, and as invalid when one of name, x, y, width and height is
\* absent, and then no region row is added; when it succeeds the one new row
\* has the location asked for as its location_id; and the list of the regions
\* of a location holds the regions of that location and no other.
C21_CreateRegionChecked ==
    [][/\ response'.route = "add_region" =>
              LET args == response'.args
                  absent == \/ args.data = NULL
                            \/ \E f \in {"name", "x", "y", "width", "height"} :
                                   f \notin DOMAIN Val(args.data)
              IN  /\ args.location_id \notin DOMAIN locations =>
                         response'.status = 404 /\ UNCHANGED location_regions
                  /\ args.location_id \in DOMAIN locations /\ absent =>
                         response'.status = 400 /\ UNCHANGED location_regions
                  /\ response'.status = 201 =>
                         LET id == response'.body.id
                         IN  /\ id \notin DOMAIN location_regions
                             /\ DOMAIN location_regions' = DOMAIN location_regions \cup {id}
                             /\ location_regions'[id].location_id = args.location_id
                             /\ \A r \in DOMAIN location_regions :
                                    location_regions'[r] = location_regions[r]
       /\ response'.route = "get_regions" =>
              {json.id : json \in response'.body} =
                  {r \in DOMAIN location_regions' :
                      location_regions'[r].location_id = response'.args.location_id}
      ]_vars

\* The regions of the second location were listed: the one created in it and
\* not the one created in the first location.
C21_Witness ==
    /\ response.route = "get_regions"
    /\ response.args.location_id = 2
    /\ Cardinality(response.body) = 1
    /\ \E r \in DOMAIN location_regions : location_regions[r].location_id = 1
    /\ \E r \in DOMAIN location_regions : location_regions[r].location_id = 2

---------------------------------------------------------------------------
(* Properties of the list of the inventory (SpecList). *)

\* A stored id satisfies a filter: there is no filter, or the filter is a
\* number and the id is that number; the empty string is the id of nothing.
satisfies(column, filter) ==
    CASE filter.kind = "none" -> TRUE
      [] filter.kind = "int" -> column # NULL /\ Val(column) = filter.n
      [] filter.kind = "empty" -> FALSE

\* C23: the list of the inventory answers exactly the stored items that
\* satisfy every filter given: with locationId and regionId those with both
\* ids, with one of them those with that id, with neither all items.
C23_ListByFilters ==
    response.route = "get_inventory" =>
        /\ response.status = 200
        /\ {json.id : json \in response.body} =
               {i \in DOMAIN inventory_items :
                   /\ satisfies(inventory_items[i].location_id, response.args.locationId)
                   /\ satisfies(inventory_items[i].region_id, response.args.regionId)}
        /\ \A json \in response.body :
               /\ json.locationId = inventory_items[json.id].location_id
               /\ json.regionId = inventory_items[json.id].region_id

\* The list was asked for with both filters and answered one of two stored
\* items; the other is in the location asked for and in another region.
C23_Witness ==
    /\ response.route = "get_inventory"
    /\ response.args.locationId.kind = "int"
    /\ response.args.regionId.kind = "int"
    /\ Cardinality(response.body) = 1
    /\ \E i \in DOMAIN inventory_items :
           /\ inventory_items[i].location_id = Some(response.args.locationId.n)
           /\ inventory_items[i].region_id # NULL
           /\ inventory_items[i].region_id # Some(response.args.regionId.n)

===========================================================================
